---- MODULE Spec2Model ----
(***************************************************************************)
(* A model of the ASCII duel arena (src/game.py): the frame loop of        *)
(* AsciiArenaGame.run_match and every handler it calls.                    *)
(*                                                                         *)
(* Time is counted in hundredths of a second, so the float constants of    *)
(* the source appear multiplied by 100 (FRAME_TIME = 0.05 s is 5).         *)
(* The arena is a reduced preset: ArenaWidth x ArenaHeight stand for the   *)
(* entries of ARENA_PRESETS; start cells are computed from them exactly as *)
(* reset_round does.                                                       *)
(***************************************************************************)
EXTENDS Integers, Sequences, FiniteSets, TLC

\* ------------------------------------------------------------------ bounds
ArenaWidth == 10
ArenaHeight == 3
MaxFrames == 4
MaxDuelFrames == 6
MaxShieldFrames == 6
MaxSpawnFrames == 3
MaxApplyFrames == 3
MaxChargeFrames == 3
MaxShotgunFrames == 3
MaxJumpFrames == 4
MaxApproachFrames == 5

\* ------------------------------------------------------- program constants
FRAME_TIME == 5
MOVE_HOLD_TIMEOUT == 35
SHOT_COOLDOWN == 10
CHARGE_RELEASE_WINDOW == 8
MAX_CHARGE_TIME == 75
DASH_COOLDOWN == 220
DASH_DISTANCE == 7
DASH_TRAIL_TTL == 18
PROJECTILE_SPEED == 2
POWERUP_SPAWN_INTERVAL == 800
POWERUP_LIFETIME == 1400
SHOTGUN_DURATION == 1000
DASH_BOOST_DURATION == 1000
DASH_BOOST_COOLDOWN == 60
JUMP_DURATION == 45
LEVEL_NORMAL == 0
LEVEL_JUMP == 1
CHARGE_TIER_LOW == 15
CHARGE_TIER_MID == 40
BOT_ACTION_INTERVAL == 16
NEVER == -99900

Pids == <<"p1", "p2">>
PidSet == {"p1", "p2"}
None == "none"
PowerKinds == {"shotgun", "dash_boost", "shield"}

KEYMAP ==
  [p1 |-> [up |-> "w", down |-> "s", left |-> "a", right |-> "d",
           jump |-> "e", dash |-> "r", shoot |-> "q"],
   p2 |-> [up |-> "i", down |-> "k", left |-> "j", right |-> "l",
           jump |-> "o", dash |-> "p", shoot |-> "u"]]

VARIABLES
  pc,            \* position in the loop body of run_match
  now,           \* the last reading of time.time()
  keys,          \* the keys read by kb.get_keys() in this frame
  players,       \* self.players: pid -> Player
  projectiles,   \* self.projectiles, in list order
  powerups,      \* self.powerups, in list order
  dash_trails,   \* self.dash_trails, in list order
  last_spawn_at, \* self.last_spawn_at
  scores,        \* self.scores
  bot_mode,      \* self.bot_mode
  last_bot_action, \* self.last_bot_action
  scorer,        \* run_match's local `scorer` (None outside a frame)
  substep,       \* sub-steps of step_projectiles done in the running pass
  hits,          \* the hit branches step_projectiles took in this round, in order
  nframes        \* frames started in this match (bounds the exploration)

vars == <<pc, now, keys, players, projectiles, powerups, dash_trails,
          last_spawn_at, scores, bot_mode, last_bot_action, scorer, substep, hits,
          nframes>>

\* ----------------------------------------------------------------- helpers
Max(a, b) == IF a >= b THEN a ELSE b
Min(a, b) == IF a <= b THEN a ELSE b
Abs(a) == IF a >= 0 THEN a ELSE -a
Other(pid) == IF pid = "p1" THEN "p2" ELSE "p1"

InArena(x, y) == 0 <= x /\ x < ArenaWidth /\ 0 <= y /\ y < ArenaHeight

\* str.lower() of the upper-case letters of the key vocabulary; "\x1b" and
\* non-letters are returned as they are.
Lower(key) ==
  CASE key = "W" -> "w" [] key = "S" -> "s" [] key = "A" -> "a" [] key = "D" -> "d"
    [] key = "E" -> "e" [] key = "R" -> "r" [] key = "Q" -> "q"
    [] key = "I" -> "i" [] key = "K" -> "k" [] key = "J" -> "j" [] key = "L" -> "l"
    [] key = "O" -> "o" [] key = "P" -> "p" [] key = "U" -> "u"
    [] OTHER -> key

normalize_key(key) == IF key = "esc" THEN key ELSE Lower(key)

\* ------------------------------------------------------------------ Player
NewPlayer(pid) ==
  [pid |-> pid,
   x |-> IF pid = "p1" THEN 4 ELSE ArenaWidth - 5,
   y |-> ArenaHeight \div 2,
   level |-> LEVEL_NORMAL,
   facing |-> IF pid = "p1" THEN <<1, 0>> ELSE <<-1, 0>>,
   alive |-> TRUE,
   shield |-> FALSE,
   shotgun_until |-> 0,
   dash_boost_until |-> 0,
   last_shot_at |-> NEVER,
   last_dash_at |-> NEVER,
   jump_until |-> 0,
   move_dx |-> 0,
   move_dy |-> 0,
   move_until |-> 0,
   charging |-> FALSE,
   charge_started_at |-> 0,
   last_charge_input_at |-> 0]

dash_cooldown(pl, t) ==
  IF t < pl.dash_boost_until THEN DASH_BOOST_COOLDOWN ELSE DASH_COOLDOWN

\* can_shoot that stays false at last_shot_at + SHOT_COOLDOWN itself
can_shoot_strict(pl, t) == t - pl.last_shot_at > SHOT_COOLDOWN

can_shoot(pl, t) == t - pl.last_shot_at >= SHOT_COOLDOWN

can_dash(pl, t) == t - pl.last_dash_at >= dash_cooldown(pl, t)

\* ------------------------------------------------------------------- arena
\* clamp_in_arena without its max(0, ...)
clamp_without_floor(x, y) ==
  <<Min(ArenaWidth - 1, x), Min(ArenaHeight - 1, y)>>

clamp_in_arena(x, y) ==
  <<Max(0, Min(ArenaWidth - 1, x)), Max(0, Min(ArenaHeight - 1, y))>>

\* The round state the input handlers read and write.
World == [players |-> players, projectiles |-> projectiles, dash_trails |-> dash_trails]

\* ------------------------------------------------------------------ firing
Shots(pl, t) ==
  LET base == IF pl.facing # <<0, 0>> THEN pl.facing ELSE <<1, 0>>
      px == -base[2]
      py == base[1]
  IN IF t < pl.shotgun_until
       THEN << <<base[1], base[2], 0, 0>>,
               <<base[1], base[2], px, py>>,
               <<base[1], base[2], -px, -py>> >>
       ELSE << <<base[1], base[2], 0, 0>> >>

SpawnedProjectile(pl, shot, size) ==
  LET at == clamp_in_arena(pl.x + shot[3], pl.y + shot[4])
  IN [x |-> at[1], y |-> at[2], dx |-> shot[1], dy |-> shot[2],
      level |-> pl.level, owner |-> pl.pid, size |-> size]

fire_projectiles(w, pid, t, size) ==
  LET pl == w.players[pid]
      shots == Shots(pl, t)
      new == [i \in 1..Len(shots) |-> SpawnedProjectile(pl, shots[i], size)]
  IN [w EXCEPT !.players[pid].last_shot_at = t,
               !.projectiles = @ \o new]

start_or_update_charge(pl, t) ==
  IF ~pl.charging
    THEN IF ~can_shoot(pl, t)
           THEN pl
           ELSE [pl EXCEPT !.charging = TRUE,
                           !.charge_started_at = t,
                           !.last_charge_input_at = t]
    ELSE [pl EXCEPT !.last_charge_input_at = t]

\* charge_tier_of with a duration at a threshold left in the tier below
charge_tier_inclusive(charge_time) ==
  IF charge_time <= CHARGE_TIER_LOW THEN 1
  ELSE IF charge_time <= CHARGE_TIER_MID THEN 2 ELSE 3

charge_tier_of(charge_time) ==
  IF charge_time < CHARGE_TIER_LOW THEN 1
  ELSE IF charge_time < CHARGE_TIER_MID THEN 2 ELSE 3

\* The tier the facing indicator shows while the player charges.
charge_tier(pl, t) ==
  charge_tier_of(Max(0, Min(MAX_CHARGE_TIME, t - pl.charge_started_at)))

\* maybe_release_charge that releases on the release window only
maybe_release_without_cap(w, pid, t) ==
  LET pl == w.players[pid]
  IN IF ~pl.charging THEN w
     ELSE IF t - pl.last_charge_input_at < CHARGE_RELEASE_WINDOW
       THEN w
     ELSE LET charge_time == Max(0, Min(MAX_CHARGE_TIME, t - pl.charge_started_at))
              fired == fire_projectiles(w, pid, t, charge_tier_of(charge_time))
          IN [fired EXCEPT !.players[pid].charging = FALSE]

maybe_release_charge(w, pid, t) ==
  LET pl == w.players[pid]
  IN IF ~pl.charging THEN w
     ELSE IF /\ t - pl.last_charge_input_at < CHARGE_RELEASE_WINDOW
             /\ t - pl.charge_started_at < MAX_CHARGE_TIME
       THEN w
     ELSE LET charge_time == Max(0, Min(MAX_CHARGE_TIME, t - pl.charge_started_at))
              fired == fire_projectiles(w, pid, t, charge_tier_of(charge_time))
          IN [fired EXCEPT !.players[pid].charging = FALSE]

\* -------------------------------------------------------------------- dash
DashDir(pl) ==
  IF pl.facing = <<0, 0>>
    THEN <<IF pl.pid = "p1" THEN 1 ELSE -1, 0>>
    ELSE pl.facing

DashTrailCells(pl, t) ==
  LET d == DashDir(pl)
      glyph == IF d[1] # 0 THEN "-" ELSE "|"
      cell(i) == [x |-> pl.x - d[1] * i, y |-> pl.y - d[2] * i,
                  glyph |-> glyph, expires_at |-> t + DASH_TRAIL_TTL]
      all == [i \in 1..(DASH_DISTANCE - 1) |-> cell(i)]
  IN SelectSeq(all, LAMBDA c : InArena(c.x, c.y))

dash(w, pid, t) ==
  LET pl == w.players[pid]
      d == DashDir(pl)
      to == clamp_in_arena(pl.x + d[1] * DASH_DISTANCE, pl.y + d[2] * DASH_DISTANCE)
  IN IF pl.charging \/ ~can_dash(pl, t) THEN w
     ELSE [w EXCEPT !.players[pid].last_dash_at = t,
                    !.players[pid].x = to[1],
                    !.players[pid].y = to[2],
                    !.dash_trails = @ \o DashTrailCells(pl, t)]

\* ------------------------------------------------------------ key handling
KeyDir(pid, key) ==
  LET m == KEYMAP[pid]
  IN IF key = m.up THEN <<0, -1>>
     ELSE IF key = m.down THEN <<0, 1>>
     ELSE IF key = m.left THEN <<-1, 0>>
     ELSE IF key = m.right THEN <<1, 0>>
     ELSE <<0, 0>>

Aim(pl, d, t) ==
  IF d = <<0, 0>> THEN pl
  ELSE IF pl.charging THEN [pl EXCEPT !.facing = d]
  ELSE [pl EXCEPT !.facing = d, !.move_dx = d[1], !.move_dy = d[2],
                  !.move_until = t + MOVE_HOLD_TIMEOUT]

handle_key_for_player(w, pid, key, t) ==
  LET m == KEYMAP[pid]
      w1 == [w EXCEPT !.players[pid] = Aim(@, KeyDir(pid, key), t)]
  IN IF key = m.jump
       THEN [w1 EXCEPT !.players[pid].level = LEVEL_JUMP,
                       !.players[pid].jump_until = t + JUMP_DURATION]
     ELSE IF key = m.dash THEN dash(w1, pid, t)
     ELSE IF key = m.shoot
       THEN [w1 EXCEPT !.players[pid] = start_or_update_charge(@, t)]
     ELSE w1

apply_continuous_movement(pl, t) ==
  IF pl.charging THEN pl
  ELSE IF t <= pl.move_until /\ (pl.move_dx # 0 \/ pl.move_dy # 0)
    THEN LET to == clamp_in_arena(pl.x + pl.move_dx, pl.y + pl.move_dy)
         IN [pl EXCEPT !.x = to[1], !.y = to[2]]
  ELSE pl

\* update_level_state that reverts only after jump_until has passed
update_level_late(pl, t) ==
  IF pl.level = LEVEL_JUMP /\ t > pl.jump_until
    THEN [pl EXCEPT !.level = LEVEL_NORMAL]
    ELSE pl

update_level_state(pl, t) ==
  IF pl.level = LEVEL_JUMP /\ t >= pl.jump_until
    THEN [pl EXCEPT !.level = LEVEL_NORMAL]
    ELSE pl

\* One key of handle_inputs' first loop: offered to every player in dict order.
RECURSIVE KeyForPlayers(_, _, _, _, _)
KeyForPlayers(w, key, t, bot, i) ==
  IF i > Len(Pids) THEN w
  ELSE LET pid == Pids[i]
           skip == ~w.players[pid].alive \/ (bot /\ pid = "p2")
       IN KeyForPlayers(IF skip THEN w ELSE handle_key_for_player(w, pid, key, t),
                        key, t, bot, i + 1)

RECURSIVE AllKeys(_, _, _, _, _)
AllKeys(w, ks, t, bot, i) ==
  IF i > Len(ks) THEN w
  ELSE AllKeys(KeyForPlayers(w, ks[i], t, bot, 1), ks, t, bot, i + 1)

\* handle_inputs' second loop, for one player.
SettlePlayer(w, pid, t) ==
  LET moved == [w EXCEPT !.players[pid] =
                  update_level_state(apply_continuous_movement(@, t), t)]
  IN maybe_release_charge(moved, pid, t)

RECURSIVE SettleAll(_, _, _)
SettleAll(w, t, i) ==
  IF i > Len(Pids) THEN w
  ELSE SettleAll(SettlePlayer(w, Pids[i], t), t, i + 1)

handle_inputs(w, ks, t, bot) ==
  LET normalized == [i \in 1..Len(ks) |-> normalize_key(ks[i])]
  IN SettleAll(AllKeys(w, normalized, t, bot, 1), t, 1)

\* --------------------------------------------------------------------- bot
BotActions == {"move_i", "move_j", "move_k", "move_l", "jump", "dash", "shoot"}

\* run_bot once the rate limit has passed and `action` has been drawn.
bot_act(w, action, t) ==
  LET acted ==
        CASE action = "move_i" -> handle_key_for_player(w, "p2", "i", t)
          [] action = "move_j" -> handle_key_for_player(w, "p2", "j", t)
          [] action = "move_k" -> handle_key_for_player(w, "p2", "k", t)
          [] action = "move_l" -> handle_key_for_player(w, "p2", "l", t)
          [] action = "jump" -> handle_key_for_player(w, "p2", "o", t)
          [] action = "dash" -> handle_key_for_player(w, "p2", "p", t)
          [] OTHER -> IF can_shoot(w.players["p2"], t)
                        THEN fire_projectiles(w, "p2", t, 1)
                        ELSE w
  IN [acted EXCEPT !.players["p2"] =
        update_level_state(apply_continuous_movement(@, t), t)]

\* ---------------------------------------------------------------- powerups
\* apply_powerup restarting the buff from now, without max
apply_powerup_restarts(pl, kind, t) ==
  IF kind = "shotgun"
    THEN [pl EXCEPT !.shotgun_until = t + SHOTGUN_DURATION]
  ELSE IF kind = "dash_boost"
    THEN [pl EXCEPT !.dash_boost_until = t + DASH_BOOST_DURATION]
  ELSE IF kind = "shield"
    THEN [pl EXCEPT !.shield = TRUE]
  ELSE pl

apply_powerup(pl, kind, t) ==
  IF kind = "shotgun"
    THEN [pl EXCEPT !.shotgun_until = Max(@, t + SHOTGUN_DURATION)]
  ELSE IF kind = "dash_boost"
    THEN [pl EXCEPT !.dash_boost_until = Max(@, t + DASH_BOOST_DURATION)]
  ELSE IF kind = "shield"
    THEN [pl EXCEPT !.shield = TRUE]
  ELSE pl

Interior == (1..(ArenaWidth - 2)) \X (1..(ArenaHeight - 2))
Occupied(ps) == {<<ps[p].x, ps[p].y>> : p \in PidSet}

\* list.remove: drops the first element equal to `e`.
RECURSIVE RemoveFirst(_, _)
RemoveFirst(s, e) ==
  IF s = <<>> THEN s
  ELSE IF Head(s) = e THEN Tail(s)
  ELSE <<Head(s)>> \o RemoveFirst(Tail(s), e)

\* The inner loop of handle_pickups for one player, over the snapshot `snap`.
RECURSIVE PickupsOf(_, _, _, _, _)
PickupsOf(st, pid, snap, t, i) ==
  IF i > Len(snap) THEN st
  ELSE LET pu == snap[i]
           pl == st.players[pid]
       IN PickupsOf(IF <<pl.x, pl.y>> = <<pu.x, pu.y>>
                      THEN [players |-> [st.players EXCEPT
                                           ![pid] = apply_powerup(@, pu.kind, t)],
                            powerups |-> RemoveFirst(st.powerups, pu)]
                      ELSE st,
                    pid, snap, t, i + 1)

RECURSIVE PickupsAll(_, _, _)
PickupsAll(st, t, i) ==
  IF i > Len(Pids) THEN st
  ELSE PickupsAll(PickupsOf(st, Pids[i], st.powerups, t, 1), t, i + 1)

handle_pickups(ps, pus, t) ==
  LET live == SelectSeq(pus, LAMBDA p : t - p.spawned_at <= POWERUP_LIFETIME)
  IN PickupsAll([players |-> ps, powerups |-> live], t, 1)

\* ------------------------------------------------------------- projectiles
\* projectile_hits_player without its level test
hits_on_any_level(proj, pl) ==
  Abs(pl.x - proj.x) + Abs(pl.y - proj.y) <= Max(0, proj.size - 1)

projectile_hits_player(proj, pl) ==
  IF pl.level # proj.level THEN FALSE
  ELSE Abs(pl.x - proj.x) + Abs(pl.y - proj.y) <= Max(0, proj.size - 1)

\* The first player, in dict order from index i, the moved projectile hits
\* (None when the inner loop ends without a hit).
RECURSIVE HitTarget(_, _, _)
HitTarget(ps, proj, i) ==
  IF i > Len(Pids) THEN None
  ELSE LET pid == Pids[i]
       IN IF pid = proj.owner \/ ~ps[pid].alive THEN HitTarget(ps, proj, i + 1)
          ELSE IF projectile_hits_player(proj, ps[pid]) THEN pid
          ELSE HitTarget(ps, proj, i + 1)

\* hit_effect with a shield that is never used up
hit_effect_keeps_shield(st, proj, pid) ==
  LET pl == st.players[pid]
      after == IF pl.shield THEN pl ELSE [pl EXCEPT !.alive = FALSE]
      sc == IF pl.shield THEN st.scorer ELSE proj.owner
  IN [st EXCEPT !.players[pid] = after,
                !.scorer = sc,
                !.hits = Append(@, [proj |-> proj, target |-> pid,
                                    tlevel |-> pl.level,
                                    shield_before |-> pl.shield,
                                    shield_after |-> after.shield,
                                    alive_after |-> after.alive,
                                    scorer_before |-> st.scorer,
                                    scorer_after |-> sc])]

\* The branch taken on a hit of `proj` on player `pid`.
hit_effect(st, proj, pid) ==
  LET pl == st.players[pid]
      after == IF pl.shield THEN [pl EXCEPT !.shield = FALSE]
                            ELSE [pl EXCEPT !.alive = FALSE]
      sc == IF pl.shield THEN st.scorer ELSE proj.owner
  IN [st EXCEPT !.players[pid] = after,
                !.scorer = sc,
                !.hits = Append(@, [proj |-> proj, target |-> pid,
                                    tlevel |-> pl.level,
                                    shield_before |-> pl.shield,
                                    shield_after |-> after.shield,
                                    alive_after |-> after.alive,
                                    scorer_before |-> st.scorer,
                                    scorer_after |-> sc])]

\* step_one without the arena test
step_one_keeps_leavers(st, proj) ==
  LET moved == [proj EXCEPT !.x = @ + proj.dx, !.y = @ + proj.dy]
      target == HitTarget(st.players, moved, 1)
  IN IF target = None THEN [st EXCEPT !.survivors = Append(@, moved)]
     ELSE hit_effect(st, moved, target)

\* The body of the loop over self.projectiles, for one projectile.
step_one(st, proj) ==
  LET moved == [proj EXCEPT !.x = @ + proj.dx, !.y = @ + proj.dy]
      target == HitTarget(st.players, moved, 1)
  IN IF ~InArena(moved.x, moved.y) THEN st
     ELSE IF target = None THEN [st EXCEPT !.survivors = Append(@, moved)]
     ELSE hit_effect(st, moved, target)

RECURSIVE StepList(_, _, _)
StepList(st, projs, i) ==
  IF i > Len(projs) THEN st
  ELSE StepList(step_one(st, projs[i]), projs, i + 1)

\* One iteration of `for _ in range(PROJECTILE_SPEED)`.
sub_step(ps, projs, sc, hs) ==
  StepList([players |-> ps, survivors |-> <<>>, scorer |-> sc, hits |-> hs], projs, 1)

\* ------------------------------------------------------------------ trails
step_dash_trails(trails, t) == SelectSeq(trails, LAMBDA tr : t < tr.expires_at)

\* ------------------------------------------------------------------ inputs
\* What one frame reads: <<the time since the previous clock reading, the keys>>.
\* time.sleep(FRAME_TIME) makes the first at least FRAME_TIME; a frame may take
\* longer (SLOW_FRAME), and the process may stall for as long as a powerup
\* interval (STALL).
SLOW_FRAME == 2 * FRAME_TIME
LONG_FRAME == 8 * FRAME_TIME
STALL == POWERUP_SPAWN_INTERVAL

Keyed(dts, lists) == dts \X lists

\* A match of two humans, or of one human and the bot.
HumanMenu ==
  Keyed({FRAME_TIME, SLOW_FRAME},
        {<<>>, <<"q">>, <<"w">>, <<"r">>, <<"p">>, <<"Q">>, <<"x">>, <<"esc">>})
BotMenu == Keyed({FRAME_TIME, SLOW_FRAME}, {<<>>, <<"q">>, <<"r">>})
MatchMenu == IF bot_mode THEN BotMenu ELSE HumanMenu

\* p1 walks, aims and charges shots of every tier; p2 stands and may jump.
DuelMenu ==
  Keyed({FRAME_TIME}, {<<>>, <<"q">>, <<"a">>, <<"d">>, <<"o">>})
    \cup {<<LONG_FRAME, <<>>>>}

\* A powerup spawns, p2 may step onto it, p1 shoots.
ShieldMenu ==
  Keyed({LONG_FRAME}, {<<>>, <<"q">>, <<"l">>, <<"l", "q">>}) \cup {<<STALL, <<>>>>}

\* Nobody plays for two powerup intervals.
SpawnMenu == {<<STALL, <<>>>>, <<FRAME_TIME, <<"q">>>>, <<FRAME_TIME, <<>>>>}

PopupWaits == {0, 3}

StartTime == 1000

\* ----------------------------------------------------------------- actions
\* run_match up to its loop: bot_mode is set, reset_round has run.
Init ==
  /\ pc = "frame"
  /\ now = StartTime
  /\ keys = <<>>
  /\ players = [p \in PidSet |-> NewPlayer(p)]
  /\ projectiles = <<>>
  /\ powerups = <<>>
  /\ dash_trails = <<>>
  /\ last_spawn_at = StartTime
  /\ scores = [p \in PidSet |-> 0]
  /\ bot_mode \in BOOLEAN
  /\ last_bot_action = 0
  /\ scorer = None
  /\ substep = 0
  /\ hits = <<>>
  /\ nframes = 0

\* now = time.time(); keys = kb.get_keys(); self.handle_inputs(keys, now)
\* The first frame of a match follows reset_round at once.
Frame(menu, cap, horizon) ==
  /\ pc = "frame"
  /\ nframes < cap
  /\ \E in \in menu :
       LET t == now + (IF nframes = 0 THEN 0 ELSE in[1])
           ks == in[2]
           w == handle_inputs(World, ks, t, bot_mode)
           esc == \E i \in 1..Len(ks) : normalize_key(ks[i]) = "esc"
       IN /\ t <= horizon
          /\ now' = t
          /\ keys' = ks
          /\ nframes' = nframes + 1
          /\ IF esc
               THEN /\ pc' = "menu"
                    /\ UNCHANGED <<players, projectiles, dash_trails>>
               ELSE /\ pc' = "bot"
                    /\ players' = w.players
                    /\ projectiles' = w.projectiles
                    /\ dash_trails' = w.dash_trails
  /\ UNCHANGED <<powerups, last_spawn_at, scores, bot_mode, last_bot_action,
                 scorer, substep, hits>>

\* self.run_bot(now)
RunBot ==
  /\ pc = "bot"
  /\ IF \/ ~bot_mode
        \/ ~players["p2"].alive
        \/ now - last_bot_action < BOT_ACTION_INTERVAL
       THEN UNCHANGED <<players, projectiles, dash_trails, last_bot_action>>
       ELSE /\ \E action \in BotActions :
                 LET w == bot_act(World, action, now)
                 IN /\ players' = w.players
                    /\ projectiles' = w.projectiles
                    /\ dash_trails' = w.dash_trails
            /\ last_bot_action' = now
  /\ pc' = "spawn"
  /\ UNCHANGED <<now, keys, powerups, last_spawn_at, scores, bot_mode, scorer,
                 substep, hits, nframes>>

\* self.spawn_powerup_if_needed(now): a try finds a cell no player stands on, or
\* every try lands on a player's cell.
SpawnPowerupIfNeeded ==
  /\ pc = "spawn"
  /\ IF now - last_spawn_at < POWERUP_SPAWN_INTERVAL
       THEN UNCHANGED <<powerups, last_spawn_at>>
       ELSE /\ last_spawn_at' = now
            /\ \/ \E cell \in Interior \ Occupied(players), kind \in PowerKinds :
                    powerups' = Append(powerups,
                                       [x |-> cell[1], y |-> cell[2],
                                        kind |-> kind, spawned_at |-> now])
               \/ /\ Interior \cap Occupied(players) # {}
                  /\ UNCHANGED powerups
  /\ pc' = "pickups"
  /\ UNCHANGED <<now, keys, players, projectiles, dash_trails, scores, bot_mode,
                 last_bot_action, scorer, substep, hits, nframes>>

\* self.handle_pickups(now)
Pickups ==
  /\ pc = "pickups"
  /\ LET st == handle_pickups(players, powerups, now)
     IN /\ players' = st.players
        /\ powerups' = st.powerups
  /\ pc' = "proj"
  /\ UNCHANGED <<now, keys, projectiles, dash_trails, last_spawn_at, scores,
                 bot_mode, last_bot_action, scorer, substep, hits, nframes>>

\* scorer = self.step_projectiles(): one sub-step of the pass
SubStep ==
  /\ pc = "proj"
  /\ LET st == sub_step(players, projectiles, scorer, hits)
         done == st.scorer # None \/ substep + 1 >= PROJECTILE_SPEED
     IN /\ players' = st.players
        /\ projectiles' = st.survivors
        /\ scorer' = st.scorer
        /\ hits' = st.hits
        /\ substep' = IF done THEN 0 ELSE substep + 1
        /\ pc' = IF done THEN "trails" ELSE "proj"
  /\ UNCHANGED <<now, keys, powerups, dash_trails, last_spawn_at, scores,
                 bot_mode, last_bot_action, nframes>>

\* self.step_dash_trails(now); self.render(now); if scorer: ...
Trails ==
  /\ pc = "trails"
  /\ dash_trails' = step_dash_trails(dash_trails, now)
  /\ pc' = IF scorer # None THEN "popup" ELSE "frame"
  /\ UNCHANGED <<now, keys, players, projectiles, powerups, last_spawn_at,
                 scores, bot_mode, last_bot_action, scorer, substep, hits, nframes>>

\* show_point_popup giving the point to both players
popup_scores_both(sc, scorer_pid) == [p \in PidSet |-> sc[p] + 1]

show_point_popup(sc, scorer_pid) == [sc EXCEPT ![scorer_pid] = @ + 1]

\* self.show_point_popup(scorer, kb), which waits for a key
Popup ==
  /\ pc = "popup"
  /\ scores' = show_point_popup(scores, scorer)
  /\ \E wait \in PopupWaits : now' = now + wait
  /\ pc' = "reset"
  /\ UNCHANGED <<keys, players, projectiles, powerups, dash_trails,
                 last_spawn_at, bot_mode, last_bot_action, scorer, substep, hits,
                 nframes>>

\* reset_round leaving the powerups of the old round on the board
reset_keeps_powerups(t) ==
  [players |-> [p \in PidSet |-> NewPlayer(p)],
   projectiles |-> <<>>,
   powerups |-> powerups,
   dash_trails |-> <<>>,
   last_spawn_at |-> t]

reset_round(t) ==
  [players |-> [p \in PidSet |-> NewPlayer(p)],
   projectiles |-> <<>>,
   powerups |-> <<>>,
   dash_trails |-> <<>>,
   last_spawn_at |-> t]

\* self.reset_round(); time.sleep(FRAME_TIME)
Reset ==
  /\ pc = "reset"
  /\ LET r == reset_round(now)
     IN /\ players' = r.players
        /\ projectiles' = r.projectiles
        /\ powerups' = r.powerups
        /\ dash_trails' = r.dash_trails
        /\ last_spawn_at' = r.last_spawn_at
  /\ scorer' = None
  /\ hits' = <<>>
  /\ keys' = <<>>
  /\ pc' = "frame"
  /\ UNCHANGED <<now, scores, bot_mode, last_bot_action, substep, nframes>>

\* The loop body of run_match after handle_inputs.
Rest ==
  \/ RunBot
  \/ SpawnPowerupIfNeeded
  \/ Pickups
  \/ SubStep
  \/ Trails
  \/ Popup
  \/ Reset

NoHorizon == StartTime + MaxFrames * STALL

Next ==
  \/ Frame(MatchMenu, MaxFrames, NoHorizon)
  \/ Rest

Spec == Init /\ [][Next]_vars

\* Two humans; p1 shoots at p2 from every distance of the row.
InitHuman == Init /\ ~bot_mode

NextDuel ==
  \/ Frame(DuelMenu, MaxDuelFrames, NoHorizon)
  \/ Rest

SpecDuel == InitHuman /\ [][NextDuel]_vars

\* One powerup interval, then play.
ShieldHorizon == StartTime + STALL + MaxShieldFrames * LONG_FRAME

NextShield ==
  \/ Frame(ShieldMenu, MaxShieldFrames, ShieldHorizon)
  \/ Rest

SpecShield == InitHuman /\ [][NextShield]_vars

NextSpawn ==
  \/ Frame(SpawnMenu, MaxSpawnFrames, NoHorizon)
  \/ Rest

SpecSpawn == InitHuman /\ [][NextSpawn]_vars

\* apply_powerup on every clock reading and prior expiry: a frame is about to
\* run handle_pickups with a powerup on p1's cell. time.time() is the wall
\* clock, so an expiry may lie more than a buff duration ahead of now.
ApplyNows == {StartTime + STALL, StartTime + 2 * STALL}
ApplyExpiries(t) ==
  {0, t - 1, t + 1, t + SHOTGUN_DURATION - 1, t + SHOTGUN_DURATION,
   t + SHOTGUN_DURATION + 1, t + 2 * SHOTGUN_DURATION}

InitApply ==
  /\ pc = "pickups"
  /\ now \in ApplyNows
  /\ keys = <<>>
  /\ \E e1 \in ApplyExpiries(now), e2 \in ApplyExpiries(now) :
       players = [p \in PidSet |->
                    IF p = "p1"
                      THEN [NewPlayer(p) EXCEPT !.shotgun_until = e1,
                                                !.dash_boost_until = e2]
                      ELSE NewPlayer(p)]
  /\ projectiles = <<>>
  /\ \E kind \in PowerKinds :
       powerups = <<[x |-> NewPlayer("p1").x, y |-> NewPlayer("p1").y,
                     kind |-> kind, spawned_at |-> now]>>
  /\ dash_trails = <<>>
  /\ last_spawn_at = now
  /\ scores = [p \in PidSet |-> 0]
  /\ bot_mode = FALSE
  /\ last_bot_action = 0
  /\ scorer = None
  /\ substep = 0
  /\ hits = <<>>
  /\ nframes = 1

ApplyMenu == Keyed({FRAME_TIME, SLOW_FRAME}, {<<>>, <<"q">>})

NextApply ==
  \/ Frame(ApplyMenu, MaxApplyFrames, NoHorizon)
  \/ Rest

SpecApply == InitApply /\ [][NextApply]_vars

\* A charge of every age: p1 has been holding its shoot key (key repeat) for
\* `age`, the last shoot key came `quiet` ago, and the next frame is about to
\* read the clock.
ChargeAges == {0, 5, 10, 30, 35, 65, 70}
ChargeQuiets == {0, 5}

InitCharge ==
  /\ pc = "frame"
  /\ now = StartTime + MAX_CHARGE_TIME
  /\ keys = <<"q">>
  /\ \E age \in ChargeAges, quiet \in ChargeQuiets :
       /\ quiet <= age
       /\ players = [p \in PidSet |->
                       IF p = "p1"
                         THEN [NewPlayer(p) EXCEPT !.charging = TRUE,
                                                   !.charge_started_at = now - age,
                                                   !.last_charge_input_at = now - quiet]
                         ELSE NewPlayer(p)]
  /\ projectiles = <<>>
  /\ powerups = <<>>
  /\ dash_trails = <<>>
  /\ last_spawn_at = StartTime
  /\ scores = [p \in PidSet |-> 0]
  /\ bot_mode = FALSE
  /\ last_bot_action = 0
  /\ scorer = None
  /\ substep = 0
  /\ hits = <<>>
  /\ nframes = 1

ChargeMenu == Keyed({FRAME_TIME, SLOW_FRAME}, {<<>>, <<"q">>, <<"d">>})

NextCharge ==
  \/ Frame(ChargeMenu, MaxChargeFrames, NoHorizon)
  \/ Rest

SpecCharge == InitCharge /\ [][NextCharge]_vars

\* A second after p1 picked up a shotgun it stands anywhere in the arena, the
\* border included, facing the way its last direction key pointed.
ShotgunCells == {0, 4, ArenaWidth - 1} \X (0..(ArenaHeight - 1))
Facings == {<<1, 0>>, <<-1, 0>>, <<0, 1>>, <<0, -1>>}
WalkTime == 100

InitShotgun ==
  /\ pc = "frame"
  /\ now = StartTime + STALL + WalkTime
  /\ keys = <<>>
  /\ \E cell \in ShotgunCells, f \in Facings :
       players = [p \in PidSet |->
                    IF p = "p1"
                      THEN [NewPlayer(p) EXCEPT
                              !.x = cell[1], !.y = cell[2], !.facing = f,
                              !.move_dx = f[1], !.move_dy = f[2],
                              !.move_until = now - FRAME_TIME,
                              !.shotgun_until = StartTime + STALL + SHOTGUN_DURATION]
                      ELSE NewPlayer(p)]
  /\ projectiles = <<>>
  /\ powerups = <<>>
  /\ dash_trails = <<>>
  /\ last_spawn_at = StartTime + STALL
  /\ scores = [p \in PidSet |-> 0]
  /\ bot_mode = FALSE
  /\ last_bot_action = 0
  /\ scorer = None
  /\ substep = 0
  /\ hits = <<>>
  /\ nframes = 1

ShotgunMenu ==
  {<<FRAME_TIME, <<"q">>>>, <<FRAME_TIME, <<>>>>, <<SLOW_FRAME, <<>>>>,
   <<FRAME_TIME, <<"d", "w">>>>, <<FRAME_TIME, <<"s", "a">>>>}

NextShotgun ==
  \/ Frame(ShotgunMenu, MaxShotgunFrames, NoHorizon)
  \/ Rest

SpecShotgun == InitShotgun /\ [][NextShotgun]_vars

\* Jumps of p1, of a human p2 and of the bot, with frames short and long enough
\* to meet jump_until exactly.
JumpMenu ==
  Keyed({FRAME_TIME}, {<<>>, <<"e">>, <<"o">>}) \cup {<<LONG_FRAME, <<>>>>}

NextJump ==
  \/ Frame(JumpMenu, MaxJumpFrames, NoHorizon)
  \/ Rest

SpecJump == Init /\ [][NextJump]_vars

\* p1 shoots along the row while p2 walks away from p1 and back towards it.
ApproachMenu == Keyed({FRAME_TIME}, {<<>>, <<"q">>, <<"l">>, <<"j">>})

NextApproach ==
  \/ Frame(ApproachMenu, MaxApproachFrames, NoHorizon)
  \/ Rest

SpecApproach == InitHuman /\ [][NextApproach]_vars

TypeOK ==
  /\ pc \in {"frame", "bot", "spawn", "pickups", "proj", "trails", "popup",
             "reset", "menu"}
  /\ scorer \in PidSet \cup {None}

\* ================================================================== claims
ProjIndex == 1..Len(projectiles)
JustStepped == pc = "trails" \/ (pc = "proj" /\ substep > 0)
Covers(proj, pl) ==
  pl.level = proj.level /\ Abs(pl.x - proj.x) + Abs(pl.y - proj.y) <= proj.size - 1

\* C1: in every reachable state, whatever keys, held movement, dashes and bot
\* actions came before, both players stand inside the arena:
\* 0 <= x < arena_width and 0 <= y < arena_height.
C1_PositionsInArena ==
  \A p \in PidSet : InArena(players[p].x, players[p].y)

\* C1's case: in a match against the bot, the bot has just dashed into the left
\* wall and p1 has dashed into the right wall.
C1_Witness ==
  /\ bot_mode
  /\ players["p2"].last_dash_at = now /\ players["p2"].x = 0
  /\ players["p1"].last_dash_at > NEVER /\ players["p1"].x = ArenaWidth - 1

Moved(pr) == [pr EXCEPT !.x = @ + pr.dx, !.y = @ + pr.dy]
InList(pr, list) == \E j \in 1..Len(list) : list[j] = pr
NewHits == {j \in 1..Len(hits') : j > Len(hits)}

\* C2: in a sub-step of step_projectiles, a projectile whose level differs from
\* the defender's level is not removed as a hit on the defender (it stays in
\* the list, moved by one cell, unless it left the arena) and no hit on the
\* defender is taken for it; and a defender loses its shield or its life in a
\* sub-step only if a projectile of the opponent has the defender's level.
C2_CrossLevelNeverHits ==
  [][pc = "proj" =>
       /\ \A i \in ProjIndex :
            LET pr == projectiles[i]
                def == players[Other(pr.owner)]
            IN def.level # pr.level =>
                 /\ InArena(Moved(pr).x, Moved(pr).y) => InList(Moved(pr), projectiles')
                 /\ \A j \in NewHits :
                      ~(hits'[j].proj = Moved(pr) /\ hits'[j].target = def.pid)
       /\ \A p \in PidSet :
            (players'[p].alive # players[p].alive \/ players'[p].shield # players[p].shield)
              => \E i \in ProjIndex : /\ projectiles[i].owner = Other(p)
                                      /\ projectiles[i].level = players[p].level
    ]_vars

\* C2's case: a sub-step has just put a size-3 projectile of p1, fired on level
\* Normal, on the cell of p2, who is in a jump, alive, and was not hit.
C2_Witness ==
  /\ JustStepped
  /\ players["p2"].level = LEVEL_JUMP /\ players["p2"].alive
  /\ hits = <<>>
  /\ \E i \in ProjIndex :
       /\ projectiles[i].owner = "p1" /\ projectiles[i].level = LEVEL_NORMAL
       /\ projectiles[i].size = 3
       /\ projectiles[i].x = players["p2"].x /\ projectiles[i].y = players["p2"].y

\* The cells between a projectile flying along a row and the player `pl` ahead
\* of it on that row (0 or less: not ahead).
RowGap(pr, pl) ==
  IF pr.dy = 0 /\ pr.dx # 0 /\ pr.y = pl.y THEN (pl.x - pr.x) * pr.dx ELSE 0

\* C7: a projectile flying along a row towards a living, unshielded opponent of
\* its level, d >= 1 cells ahead, advances one cell per sub-step and is tested
\* on every cell: the sub-step that brings it within its radius of the
\* opponent (for size 1: onto the opponent's cell) leaves the opponent dead
\* with the owner as scorer; any earlier sub-step leaves it in the list one
\* cell closer. So from any distance, odd or even, it reaches the opponent.
C7_RowShotHits ==
  [][pc = "proj" =>
       \A i \in ProjIndex :
         LET pr == projectiles[i]
             def == players[Other(pr.owner)]
             d == RowGap(pr, def)
         IN (d >= 1 /\ def.alive /\ ~def.shield /\ def.level = pr.level) =>
              IF d - 1 <= pr.size - 1
                THEN /\ ~players'[def.pid].alive
                     /\ scorer' = pr.owner
                     /\ ~InList(Moved(pr), projectiles')
                ELSE /\ InList(Moved(pr), projectiles') \/ ~players'[def.pid].alive
                     /\ RowGap(Moved(pr), def) = d - 1
    ]_vars

NewHitsOn(p) == {j \in NewHits : hits'[j].target = p}

\* C3: a shield is used up by exactly one hit. In a sub-step, the first hit on
\* a shielded player clears the shield, leaves the player alive, records no
\* scorer and removes the projectile; a hit on a player without shield (the
\* next hit, when no pickup came between) kills the player, records the
\* projectile's owner as scorer and removes the projectile. A shield comes back
\* only through a pickup.
C3_ShieldOneShot ==
  [][/\ \A j \in NewHits :
          LET h == hits'[j]
          IN /\ ~InList(h.proj, projectiles')
             /\ h.shield_before =>
                  ~h.shield_after /\ h.alive_after /\ h.scorer_after = h.scorer_before
             /\ ~h.shield_before =>
                  ~h.alive_after /\ h.scorer_after = h.proj.owner
     /\ \A p \in PidSet :
          /\ (players'[p].shield /\ ~players[p].shield) => pc = "pickups"
          /\ pc = "proj" =>
               LET n == Cardinality(NewHitsOn(p))
                   first == CHOOSE j \in NewHitsOn(p) : \A k \in NewHitsOn(p) : j <= k
               IN /\ n = 0 => players'[p] = players[p]
                  /\ n >= 1 => hits'[first].shield_before = players[p].shield
                  /\ (players[p].shield /\ n = 1) =>
                       ~players'[p].shield /\ players'[p].alive
                  /\ (players[p].shield /\ n >= 2) =>
                       ~players'[p].shield /\ ~players'[p].alive
                  /\ (~players[p].shield /\ n >= 1) => n = 1 /\ ~players'[p].alive
     /\ (pc = "proj" /\ \A j \in NewHits : hits'[j].shield_before) => scorer' = scorer
    ]_vars

\* C3's case: in one round p2 picked up a shield, a first projectile of p1 hit
\* and only took the shield, and a second one has killed p2 with p1 as scorer.
C3_Witness ==
  /\ Len(hits) = 2
  /\ hits[1].target = "p2" /\ hits[1].shield_before /\ hits[1].alive_after
  /\ hits[2].target = "p2" /\ ~hits[2].shield_before
  /\ ~players["p2"].alive /\ ~players["p2"].shield
  /\ scorer = "p1"

\* C4: scores change only in the popup of a frame whose projectile pass
\* reported a scorer, and then the scorer's counter grows by exactly one and
\* the other stays; once a scorer is reported the pass ends, and nothing but
\* the trail pruning, the popup and reset_round happens to the round: no
\* input, bot, spawn, pickup or projectile step sees the resolved round.
C4_ScoreOncePerRound ==
  [][/\ scores' # scores =>
          /\ pc = "popup" /\ scorer \in PidSet
          /\ scores'[scorer] = scores[scorer] + 1
          /\ scores'[Other(scorer)] = scores[Other(scorer)]
     /\ (pc = "proj" /\ scorer' # None) => pc' = "trails"
     /\ scorer # None =>
          /\ <<pc, pc'>> \in {<<"trails", "popup">>, <<"popup", "reset">>,
                              <<"reset", "frame">>}
          /\ pc = "popup" => scores'[scorer] = scores[scorer] + 1
          /\ pc # "reset" =>
               players' = players /\ projectiles' = projectiles /\ powerups' = powerups
          /\ pc = "reset" => scorer' = None
    ]_vars

\* C4's case: the popup of p1's first point is over, reset_round comes next.
C4_Witness ==
  pc = "reset" /\ scorer = "p1" /\ scores["p1"] = 1 /\ scores["p2"] = 0

\* C5: reset_round puts both players back on their start cells, on level
\* Normal, with the default facing, alive, without shield, without active buff,
\* charge or held movement, empties the projectile, powerup and trail lists,
\* and leaves both scores as they were.
C5_ResetKeepsScores ==
  [][pc = "reset" =>
       /\ \A p \in PidSet :
            /\ players'[p].x = (IF p = "p1" THEN 4 ELSE ArenaWidth - 5)
            /\ players'[p].y = ArenaHeight \div 2
            /\ players'[p].level = LEVEL_NORMAL
            /\ players'[p].facing = (IF p = "p1" THEN <<1, 0>> ELSE <<-1, 0>>)
            /\ players'[p].alive /\ ~players'[p].shield
            /\ players'[p].shotgun_until <= now' /\ players'[p].dash_boost_until <= now'
            /\ ~players'[p].charging
            /\ players'[p].move_dx = 0 /\ players'[p].move_dy = 0
       /\ projectiles' = <<>> /\ powerups' = <<>> /\ dash_trails' = <<>>
       /\ scores' = scores
    ]_vars

\* C5's case: reset_round is about to run after p1's point, with a powerup on
\* the board and p2 away from its start cell.
C5_Witness ==
  /\ pc = "reset" /\ scores["p1"] = 1
  /\ powerups # <<>>
  /\ players["p2"].x # ArenaWidth - 5

\* C6: no two powerups of the live list lie on the same cell.
C6_OnePowerupPerCell ==
  \A i \in 1..Len(powerups) : \A j \in 1..Len(powerups) :
    (i # j) => <<powerups[i].x, powerups[i].y>> # <<powerups[j].x, powerups[j].y>>

InputFields(pl) ==
  <<pl.facing, pl.move_dx, pl.move_dy, pl.move_until, pl.jump_until,
    pl.last_dash_at, pl.charge_started_at, pl.last_charge_input_at>>

\* C8: the steps of a frame run in the order input resolution, held movement
\* and level auto-reversion, powerup spawn and pickup, projectile advance and
\* collision, round termination. So once the first step of a frame is over, no
\* later step of that frame resolves input (facing, held vector, jump, dash,
\* charge) or moves a player or changes its level; and the held movement of a
\* frame uses the vector that frame's direction key set.
C8_FrameOrder ==
  [][/\ pc' # pc =>
          <<pc, pc'>> \in {<<"frame", "bot">>, <<"frame", "menu">>, <<"bot", "spawn">>,
                           <<"spawn", "pickups">>, <<"pickups", "proj">>,
                           <<"proj", "trails">>, <<"trails", "frame">>,
                           <<"trails", "popup">>, <<"popup", "reset">>,
                           <<"reset", "frame">>}
     /\ pc \in {"bot", "spawn", "pickups", "proj", "trails", "popup"} =>
          \A p \in PidSet :
            /\ InputFields(players'[p]) = InputFields(players[p])
            /\ players'[p].x = players[p].x /\ players'[p].y = players[p].y
            /\ players'[p].level = players[p].level
     /\ (pc = "frame" /\ pc' = "bot" /\ Len(keys') = 1) =>
          \A p \in PidSet :
            LET d == KeyDir(p, normalize_key(keys'[1]))
            IN (d # <<0, 0>> /\ ~players[p].charging /\ ~(bot_mode /\ p = "p2")) =>
                 <<players'[p].x, players'[p].y>> =
                   clamp_in_arena(players[p].x + d[1], players[p].y + d[2])
    ]_vars

\* A player standing on a live powerup of `kind` that handle_pickups gives it
\* (p1 is served first).
PicksUp(p, kind) ==
  /\ pc = "pickups"
  /\ \E i \in 1..Len(powerups) :
       /\ powerups[i].kind = kind
       /\ now - powerups[i].spawned_at <= POWERUP_LIFETIME
       /\ <<powerups[i].x, powerups[i].y>> = <<players[p].x, players[p].y>>
       /\ p = "p1" \/ <<players["p1"].x, players["p1"].y>> # <<players[p].x, players[p].y>>

\* C10: within a round, shotgun_until and dash_boost_until never decrease, and
\* a pickup of the buff leaves its expiry at least now + duration, for every
\* clock reading and every prior expiry.
C10_BuffNeverShortened ==
  [][pc # "reset" =>
       \A p \in PidSet :
         /\ players'[p].shotgun_until >= players[p].shotgun_until
         /\ players'[p].dash_boost_until >= players[p].dash_boost_until
         /\ PicksUp(p, "shotgun") =>
              players'[p].shotgun_until >= now + SHOTGUN_DURATION
         /\ PicksUp(p, "dash_boost") =>
              players'[p].dash_boost_until >= now + DASH_BOOST_DURATION
    ]_vars

\* C10's case: p1 has picked up a shotgun in this frame while its shotgun buff
\* ran beyond now + SHOTGUN_DURATION, and the expiry is as it was.
C10_Witness ==
  /\ pc = "proj" /\ powerups = <<>> /\ nframes = 1
  /\ players["p1"].shotgun_until = now + 2 * SHOTGUN_DURATION
  /\ players["p1"].dash_boost_until = now + 1

\* The projectiles of player p that this step appended to the list.
NewProjectilesOf(p) ==
  {j \in 1..Len(projectiles') : j > Len(projectiles) /\ projectiles'[j].owner = p}

\* Clock readings around the end of the cooldown that follows last_shot_at.
CooldownReadings(pl) ==
  (pl.last_shot_at - 1)..(pl.last_shot_at + SHOT_COOLDOWN + 2) \cup {now}

\* C11: for a player that last fired at t, can_shoot is false at every clock
\* reading below t + SHOT_COOLDOWN and true at t + SHOT_COOLDOWN and at every
\* reading above it; last_shot_at changes only in a step in which the player
\* fires (and in reset_round), and then it becomes that frame's clock reading;
\* while it stays the same, can_shoot once true stays true at later readings;
\* and a charge starts only at a reading at which can_shoot is true.
C11_ShotCooldown ==
  [][\A p \in PidSet :
       LET pl == players[p]
       IN /\ \A r \in CooldownReadings(pl) :
               can_shoot(pl, r) <=> r >= pl.last_shot_at + SHOT_COOLDOWN
          /\ (players'[p].last_shot_at # pl.last_shot_at /\ pc # "reset") =>
               /\ players'[p].last_shot_at = now'
               /\ NewProjectilesOf(p) # {}
          /\ (players'[p].last_shot_at = pl.last_shot_at /\ can_shoot(pl, now)
                /\ now' >= now) => can_shoot(players'[p], now')
          /\ (players'[p].charging /\ ~pl.charging) =>
               now' >= pl.last_shot_at + SHOT_COOLDOWN
    ]_vars

\* C11's case: p1 fired SHOT_COOLDOWN ago, a shoot key of the frame before was
\* refused, and the shoot key of this frame has started a charge.
C11_Witness ==
  /\ players["p1"].last_shot_at + SHOT_COOLDOWN = now
  /\ players["p1"].charging /\ players["p1"].charge_started_at = now

\* The tier of a clamped charge duration, in hundredths of a second: below
\* 0.15 s tier 1, from 0.15 s up to but excluding 0.40 s tier 2, from 0.40 s
\* on tier 3.
ExpectedTier(d) == CASE d < 15 -> 1 [] d >= 15 /\ d < 40 -> 2 [] OTHER -> 3
ClampedCharge(pl, t) ==
  IF t - pl.charge_started_at < 0 THEN 0
  ELSE IF t - pl.charge_started_at > MAX_CHARGE_TIME THEN MAX_CHARGE_TIME
  ELSE t - pl.charge_started_at

\* C12: every projectile a player fires in handle_inputs comes from the
\* release of a charge, and its size is the tier of the charge duration clamped
\* to [0, MAX_CHARGE_TIME]: tier 1 below 0.15 s, tier 2 from 0.15 s up to but
\* excluding 0.40 s, tier 3 from 0.40 s on, the cap included; the tier shown
\* while the charge lasts follows the same rule.
C12_ChargeTier ==
  [][pc = "frame" =>
       \A p \in PidSet :
         /\ \A j \in NewProjectilesOf(p) :
              /\ players[p].charging
              /\ projectiles'[j].size = ExpectedTier(ClampedCharge(players[p], now'))
         /\ players'[p].charging =>
              charge_tier(players'[p], now') =
                ExpectedTier(ClampedCharge(players'[p], now'))
    ]_vars

\* C12's case: p1 has just released a charge of exactly 0.15 s, as tier 2.
C12_Witness ==
  /\ pc = "bot"
  /\ players["p1"].last_shot_at = now /\ ~players["p1"].charging
  /\ now - players["p1"].charge_started_at = 15
  /\ \E i \in ProjIndex : projectiles[i].owner = "p1" /\ projectiles[i].size = 2

\* C18: at the end of handle_inputs of every frame, a player that is charging
\* received its last shoot key less than CHARGE_RELEASE_WINDOW ago and started
\* the charge less than MAX_CHARGE_TIME ago; a player that was charging and is
\* not any more has fired in that frame; so a charge is over, by a shot, in the
\* first frame at or after charge_started_at + MAX_CHARGE_TIME, also when that
\* frame brings a shoot key. Nothing else in the round ends or starts a charge.
C18_ChargeAutoReleases ==
  [][/\ (pc = "frame" /\ pc' = "bot") =>
          \A p \in PidSet :
            /\ players'[p].charging =>
                 /\ now' - players'[p].last_charge_input_at < CHARGE_RELEASE_WINDOW
                 /\ now' - players'[p].charge_started_at < MAX_CHARGE_TIME
            /\ (players[p].charging /\ ~players'[p].charging) =>
                 /\ players'[p].last_shot_at = now'
                 /\ NewProjectilesOf(p) # {}
            /\ (players[p].charging
                  /\ now' >= players[p].charge_started_at + MAX_CHARGE_TIME) =>
                 ~players'[p].charging
     /\ pc \notin {"frame", "reset"} =>
          \A p \in PidSet : players'[p].charging = players[p].charging
    ]_vars

\* C18's case: the shoot key arrived in this frame too, the charge had reached
\* MAX_CHARGE_TIME, and p1 has fired.
C18_Witness ==
  /\ pc = "bot" /\ keys = <<"q">>
  /\ players["p1"].last_charge_input_at = now
  /\ now - players["p1"].charge_started_at >= MAX_CHARGE_TIME
  /\ players["p1"].last_shot_at = now /\ ~players["p1"].charging

\* C13: a pass of step_projectiles kills at most one player: the two players
\* are never both dead, and the scorer a pass reports is the owner of the only
\* lethal hit of the round.
C13_OneKillPerPass ==
  /\ players["p1"].alive \/ players["p2"].alive
  /\ \A i \in 1..Len(hits) : \A j \in 1..Len(hits) :
       (~hits[i].alive_after /\ ~hits[j].alive_after) => i = j
  /\ scorer # None =>
       \E i \in 1..Len(hits) : ~hits[i].alive_after /\ hits[i].proj.owner = scorer

\* The trail cells this step appended to the list.
NewTrails == {j \in 1..Len(dash_trails') : j > Len(dash_trails)}

\* The cells strictly between the start cell of a dash and its destination.
DashPath(pl) ==
  LET d == pl.facing
      dest == clamp_in_arena(pl.x + d[1] * DASH_DISTANCE, pl.y + d[2] * DASH_DISTANCE)
  IN {c \in {<<pl.x + d[1] * i, pl.y + d[2] * i>> : i \in 1..(DASH_DISTANCE - 1)} :
        InArena(c[1], c[2]) /\ c # dest}

\* C14: a step in which a player dashes (last_dash_at becomes the clock
\* reading) appends trail cells exactly on the cells of the dash path between
\* the start cell and the destination, the destination excluded, each with
\* expiry now + DASH_TRAIL_TTL.
C14_TrailOnDashPath ==
  [][\A p \in PidSet :
       (players'[p].last_dash_at # players[p].last_dash_at /\ pc # "reset") =>
         /\ {<<dash_trails'[j].x, dash_trails'[j].y>> : j \in NewTrails}
              = DashPath(players[p])
         /\ \A j \in NewTrails : dash_trails'[j].expires_at = now' + DASH_TRAIL_TTL
    ]_vars

\* C15: a player that fires while its shotgun buff is active spawns three
\* projectiles on three pairwise distinct cells, wherever in the arena it
\* stands, the border included.
C15_ShotgunCellsDistinct ==
  [][\A p \in PidSet :
       (/\ players'[p].last_shot_at # players[p].last_shot_at
        /\ pc # "reset"
        /\ now' < players[p].shotgun_until) =>
         /\ Cardinality(NewProjectilesOf(p)) = 3
         /\ Cardinality({<<projectiles'[j].x, projectiles'[j].y>> :
                           j \in NewProjectilesOf(p)}) = 3
    ]_vars

\* The x-components (y-components) of the direction keys of player p among the
\* keys of a frame.
HorizontalOf(p, ks) ==
  {KeyDir(p, normalize_key(ks[i]))[1] : i \in 1..Len(ks)} \ {0}
VerticalOf(p, ks) ==
  {KeyDir(p, normalize_key(ks[i]))[2] : i \in 1..Len(ks)} \ {0}

\* C16: when the keys of one frame hold a horizontal and a vertical direction
\* key of a living human player, that player's facing after handle_inputs has
\* the x-component of the horizontal key and the y-component of the vertical
\* key, both non-zero.
C16_DiagonalFacing ==
  [][(pc = "frame" /\ pc' = "bot") =>
       \A p \in PidSet :
         (/\ players[p].alive
          /\ ~(bot_mode /\ p = "p2")
          /\ HorizontalOf(p, keys') # {}
          /\ VerticalOf(p, keys') # {}) =>
           /\ players'[p].facing[1] \in HorizontalOf(p, keys')
           /\ players'[p].facing[2] \in VerticalOf(p, keys')
    ]_vars

\* The keys of a frame hold a direction key or the dash key of player p.
MovesByKey(p, ks) ==
  \E i \in 1..Len(ks) :
    \/ KeyDir(p, normalize_key(ks[i])) # <<0, 0>>
    \/ normalize_key(ks[i]) = KEYMAP[p].dash

\* C17: a held-movement vector is not applied any more once a charge has
\* started after it was set: in a frame without a direction key and without a
\* dash key of the player, a player whose last charge started at or after the
\* time its held vector was set (move_until - MOVE_HOLD_TIMEOUT) keeps its
\* position, during the charge and after its release.
C17_ChargeEndsHeldMovement ==
  [][(pc = "frame" /\ pc' = "bot") =>
       \A p \in PidSet :
         (/\ players[p].charge_started_at # 0
          /\ players[p].charge_started_at
               >= players[p].move_until - MOVE_HOLD_TIMEOUT
          /\ ~MovesByKey(p, keys')) =>
           /\ players'[p].x = players[p].x
           /\ players'[p].y = players[p].y
    ]_vars

\* C19: whenever a sub-step of the projectile pass is about to run, a player
\* on level Jump has now < jump_until, and jump_until is at most
\* now + JUMP_DURATION: a player whose jump_until has been reached is back on
\* level Normal, in a match of two humans and in a match against the bot.
C19_JumpReverts ==
  pc = "proj" =>
    \A p \in PidSet :
      players[p].level = LEVEL_JUMP =>
        /\ now < players[p].jump_until
        /\ players[p].jump_until <= now + JUMP_DURATION

\* C19's case: the bot jumped JUMP_DURATION ago, and in the frame whose clock
\* reading is its jump_until it is back on level Normal before the pass.
C19_Witness ==
  /\ bot_mode /\ pc = "proj"
  /\ players["p2"].jump_until = now
  /\ players["p2"].level = LEVEL_NORMAL

\* handle_inputs of the frame at clock reading t has moved pl, whom no key of
\* that frame is offered to, by its held vector: the vector is live, and the
\* next cell along it is inside the arena (a player the wall held back in that
\* frame has a wall as its next cell).
HeldMoved(pl, t) ==
  /\ ~pl.charging /\ t <= pl.move_until /\ (pl.move_dx # 0 \/ pl.move_dy # 0)
  /\ InArena(pl.x + pl.move_dx, pl.y + pl.move_dy)

\* C20: in a match against the bot, what run_bot does to the bot in a frame is
\* what a frame could do to a human player: a projectile of the bot comes from
\* the release of a charge (the bot was charging), and a bot that handle_inputs
\* has moved by its held vector in this frame is not moved again by run_bot
\* unless it dashes, so that it moves at most one cell per frame by held
\* movement.
C20_BotActsLikeHuman ==
  [][(pc = "bot" /\ bot_mode) =>
       /\ NewProjectilesOf("p2") # {} => players["p2"].charging
       /\ (/\ HeldMoved(players["p2"], now)
           /\ players'["p2"].last_dash_at = players["p2"].last_dash_at) =>
            /\ players'["p2"].x = players["p2"].x
            /\ players'["p2"].y = players["p2"].y
    ]_vars

\* In the frame at clock reading t, held movement has carried pl one cell
\* against the flight direction of pr onto the cell of pr: before that step pl
\* stood on the next cell ahead of pr on its line.
SteppedOnto(pl, pr, t) ==
  /\ <<pl.x, pl.y>> = <<pr.x, pr.y>>
  /\ <<pl.move_dx, pl.move_dy>> = <<-pr.dx, -pr.dy>>
  /\ ~pl.charging /\ t <= pl.move_until
  /\ InArena(pl.x + pl.move_dx, pl.y + pl.move_dy)

\* C21: a size-1 projectile flying along a row or column does not pass a
\* living, unshielded opponent of its level on that line without a hit, also
\* when the opponent walks towards it: when the opponent has stepped onto the
\* projectile's cell during input resolution of a frame, the sub-step that
\* moves the projectile off that cell, to the other side of the opponent,
\* registers the hit and the opponent is dead.
C21_NoTunnelling ==
  [][pc = "proj" =>
       \A i \in ProjIndex :
         LET pr == projectiles[i]
             def == players[Other(pr.owner)]
         IN (/\ pr.size = 1
             /\ (pr.dx = 0) # (pr.dy = 0)
             /\ def.alive /\ ~def.shield /\ def.level = pr.level
             /\ SteppedOnto(def, pr, now)) =>
              ~players'[def.pid].alive
    ]_vars

====
